---- MODULE Spec2Model ----
(***************************************************************************)
(* Arabic shaping (src/scripts/arabic.rs): the script glyph model, the     *)
(* joining-state computation and the ordered feature pipeline of           *)
(* gsub_apply_arabic, as a state machine over one shaping call.            *)
(***************************************************************************)
EXTENDS Integers, Sequences, FiniteSets, TLC

(* ---------------------------------------------------------------- bounds *)

\* Longest glyph sequence handed to gsub_apply_arabic; substitution never
\* grows the working sequence beyond it.
MaxLen == 3

\* Longest (lookup index, feature tag) list of one lookup cache entry.
MaxLookups == 2

\* Longest glyph sequence on which the joining-state pass is started directly.
MaxJoinLen == 3

\* Most lookup applications of one shaping call that change the sequence.
MaxEdits == 1

(* ------------------------------------------------------------------ tags *)

\* tag::ISOL, tag::INIT, tag::MEDI, tag::FINA and the other feature tags.
ISOL == "isol"
INIT == "init"
MEDI == "medi"
FINA == "fina"

PositionalTags == {ISOL, INIT, MEDI, FINA}

\* FeatureMask bits the cache can be asked for (gsub::FeatureMask).
FeatureMasks ==
    {"CCMP", "LOCL", "ISOL", "FINA", "MEDI", "INIT", "RLIG", "RCLT", "CALT",
     "LIGA", "MSET", "DLIG", "CSWH"}

\* The feature tag the cache pairs with the lookups of a one-feature mask.
MaskTag(feature_mask) ==
    CASE feature_mask = "CCMP" -> "ccmp"
      [] feature_mask = "LOCL" -> "locl"
      [] feature_mask = "ISOL" -> ISOL
      [] feature_mask = "FINA" -> FINA
      [] feature_mask = "MEDI" -> MEDI
      [] feature_mask = "INIT" -> INIT
      [] feature_mask = "RLIG" -> "rlig"
      [] feature_mask = "RCLT" -> "rclt"
      [] feature_mask = "CALT" -> "calt"
      [] feature_mask = "LIGA" -> "liga"
      [] feature_mask = "MSET" -> "mset"
      [] feature_mask = "DLIG" -> "dlig"
      [] feature_mask = "CSWH" -> "cswh"

(* ------------------------------------------------------------ classifier *)

\* Sample characters, one per joining type: BEH, ALEF, PHAGS-PA SUPERFIXED
\* LETTER RA, TATWEEL, FATHA, LATIN CAPITAL A.
Chars == {1576, 1575, 43122, 1600, 1614, 65}

\* unicode_joining_type::get_joining_type on the sample characters.
get_joining_type(ch) ==
    CASE ch = 1576  -> "DualJoining"
      [] ch = 1575  -> "RightJoining"
      [] ch = 43122 -> "LeftJoining"
      [] ch = 1600  -> "JoinCausing"
      [] ch = 1614  -> "Transparent"
      [] OTHER      -> "NonJoining"

canonical_combining_class(ch) ==
    IF ch \in {1611, 2288} THEN 27 ELSE
    IF ch \in {1612, 2289} THEN 28 ELSE
    IF ch \in {1613, 2290} THEN 29 ELSE
    IF ch \in {1560, 1614} THEN 30 ELSE
    IF ch \in {1561, 1615} THEN 31 ELSE
    IF ch \in {1562, 1616} THEN 32 ELSE
    IF ch \in {1617} THEN 33 ELSE
    IF ch \in {1618} THEN 34 ELSE
    IF ch \in {1648} THEN 35 ELSE
    IF ch \in {1621, 1622, 1628, 1631, 1763, 1770, 1773, 2259, 2275, 2278,
                2281, 2285, 2286, 2287, 2294, 2297, 2298} THEN 220 ELSE
    IF ch \in {1552, 1553, 1554, 1555, 1556, 1557, 1558, 1559, 1619, 1620,
                1623, 1624, 1625, 1626, 1627, 1629, 1630, 1750, 1751, 1752,
                1753, 1754, 1755, 1756, 1759, 1760, 1761, 1762, 1764, 1767,
                1768, 1771, 1772, 2260, 2261, 2262, 2263, 2264, 2265, 2266,
                2267, 2268, 2269, 2270, 2271, 2272, 2273, 2276, 2277, 2279,
                2280, 2282, 2283, 2284, 2291, 2292, 2293, 2295, 2296, 2299,
                2300, 2301, 2302, 2303} THEN 230 ELSE
    0

(* ----------------------------------------------------------- glyph model *)

\* GlyphOrigin::Char(c) and GlyphOrigin::Direct.
OriginChar(c) == <<"Char", c>>
OriginDirect == <<"Direct">>

Origins == {OriginChar(c) : c \in Chars} \cup {OriginDirect}

\* A RawGlyph<()> as a caller builds it for one origin.
MkRawGlyph(origin, dup) ==
    [unicodes           |-> IF origin[1] = "Char" THEN <<origin[2]>> ELSE <<>>,
     glyph_index        |-> IF origin[1] = "Char" THEN (origin[2] % 7) + 1 ELSE 0,
     liga_component_pos |-> 0,
     glyph_origin       |-> origin,
     small_caps         |-> FALSE,
     multi_subst_dup    |-> dup,
     is_vert_alt        |-> FALSE,
     fake_bold          |-> FALSE,
     fake_italic        |-> FALSE,
     variation          |-> "None"]

\* Mutant: the second record's data is kept.
merge_keeps_second(data1, data2) == data2

\* GlyphData::merge for ArabicData.
merge(data1, data2) == data1

\* Mutant: the multi-substitution duplicate flag is not consulted.
is_transparent_by_type_only(g) ==
    g.extra_data.joining_type = "Transparent"

is_transparent(g) ==
    g.extra_data.joining_type = "Transparent" \/ g.multi_subst_dup

is_left_joining(g) ==
    \/ g.extra_data.joining_type = "LeftJoining"
    \/ g.extra_data.joining_type = "DualJoining"
    \/ g.extra_data.joining_type = "JoinCausing"

is_right_joining(g) ==
    \/ g.extra_data.joining_type = "RightJoining"
    \/ g.extra_data.joining_type = "DualJoining"
    \/ g.extra_data.joining_type = "JoinCausing"

feature_tag(g) == g.extra_data.feature_tag

set_feature_tag(g, tag) == [g EXCEPT !.extra_data.feature_tag = tag]

\* Mutant: a right-joining character starts with the tag FINA.
ArabicGlyphFrom_tag_by_type(raw_glyph) ==
    LET joining_type ==
            IF raw_glyph.glyph_origin[1] = "Char"
            THEN get_joining_type(raw_glyph.glyph_origin[2])
            ELSE "NonJoining"
        ccc ==
            IF raw_glyph.glyph_origin[1] = "Char"
            THEN canonical_combining_class(raw_glyph.glyph_origin[2])
            ELSE 0
    IN  [unicodes           |-> raw_glyph.unicodes,
         glyph_index        |-> raw_glyph.glyph_index,
         liga_component_pos |-> raw_glyph.liga_component_pos,
         glyph_origin       |-> raw_glyph.glyph_origin,
         small_caps         |-> raw_glyph.small_caps,
         multi_subst_dup    |-> raw_glyph.multi_subst_dup,
         is_vert_alt        |-> raw_glyph.is_vert_alt,
         fake_bold          |-> raw_glyph.fake_bold,
         fake_italic        |-> raw_glyph.fake_italic,
         variation          |-> raw_glyph.variation,
         extra_data         |-> [joining_type               |-> joining_type,
                                 canonical_combining_class |-> ccc,
                                 feature_tag                |->
                                     IF joining_type = "RightJoining" THEN FINA ELSE ISOL]]

\* Mutant: a glyph of origin Direct is classified as dual-joining.
ArabicGlyphFrom_direct_joins(raw_glyph) ==
    LET joining_type ==
            IF raw_glyph.glyph_origin[1] = "Char"
            THEN get_joining_type(raw_glyph.glyph_origin[2])
            ELSE "DualJoining"
        ccc ==
            IF raw_glyph.glyph_origin[1] = "Char"
            THEN canonical_combining_class(raw_glyph.glyph_origin[2])
            ELSE 0
    IN  [unicodes           |-> raw_glyph.unicodes,
         glyph_index        |-> raw_glyph.glyph_index,
         liga_component_pos |-> raw_glyph.liga_component_pos,
         glyph_origin       |-> raw_glyph.glyph_origin,
         small_caps         |-> raw_glyph.small_caps,
         multi_subst_dup    |-> raw_glyph.multi_subst_dup,
         is_vert_alt        |-> raw_glyph.is_vert_alt,
         fake_bold          |-> raw_glyph.fake_bold,
         fake_italic        |-> raw_glyph.fake_italic,
         variation          |-> raw_glyph.variation,
         extra_data         |-> [joining_type               |-> joining_type,
                                 canonical_combining_class |-> ccc,
                                 feature_tag                |-> ISOL]]

\* From<&RawGlyph<()>> for ArabicGlyph.
ArabicGlyphFrom(raw_glyph) ==
    LET joining_type ==
            IF raw_glyph.glyph_origin[1] = "Char"
            THEN get_joining_type(raw_glyph.glyph_origin[2])
            ELSE "NonJoining"
        ccc ==
            IF raw_glyph.glyph_origin[1] = "Char"
            THEN canonical_combining_class(raw_glyph.glyph_origin[2])
            ELSE 0
    IN  [unicodes           |-> raw_glyph.unicodes,
         glyph_index        |-> raw_glyph.glyph_index,
         liga_component_pos |-> raw_glyph.liga_component_pos,
         glyph_origin       |-> raw_glyph.glyph_origin,
         small_caps         |-> raw_glyph.small_caps,
         multi_subst_dup    |-> raw_glyph.multi_subst_dup,
         is_vert_alt        |-> raw_glyph.is_vert_alt,
         fake_bold          |-> raw_glyph.fake_bold,
         fake_italic        |-> raw_glyph.fake_italic,
         variation          |-> raw_glyph.variation,
         extra_data         |-> [joining_type               |-> joining_type,
                                 canonical_combining_class |-> ccc,
                                 feature_tag                |-> ISOL]]

\* Mutant: fake_bold and fake_italic are taken from each other.
RawGlyphFrom_flags_swapped(arabic_glyph) ==
    [unicodes           |-> arabic_glyph.unicodes,
     glyph_index        |-> arabic_glyph.glyph_index,
     liga_component_pos |-> arabic_glyph.liga_component_pos,
     glyph_origin       |-> arabic_glyph.glyph_origin,
     small_caps         |-> arabic_glyph.small_caps,
     multi_subst_dup    |-> arabic_glyph.multi_subst_dup,
     is_vert_alt        |-> arabic_glyph.is_vert_alt,
     fake_bold          |-> arabic_glyph.fake_italic,
     variation          |-> arabic_glyph.variation,
     fake_italic        |-> arabic_glyph.fake_bold]

\* From<&ArabicGlyph> for RawGlyph<()>.
RawGlyphFrom(arabic_glyph) ==
    [unicodes           |-> arabic_glyph.unicodes,
     glyph_index        |-> arabic_glyph.glyph_index,
     liga_component_pos |-> arabic_glyph.liga_component_pos,
     glyph_origin       |-> arabic_glyph.glyph_origin,
     small_caps         |-> arabic_glyph.small_caps,
     multi_subst_dup    |-> arabic_glyph.multi_subst_dup,
     is_vert_alt        |-> arabic_glyph.is_vert_alt,
     fake_bold          |-> arabic_glyph.fake_bold,
     variation          |-> arabic_glyph.variation,
     fake_italic        |-> arabic_glyph.fake_italic]

\* raw_glyphs.iter().map(ArabicGlyph::from).collect()
CollectArabic(raws) == [k \in 1..Len(raws) |-> ArabicGlyphFrom(raws[k])]

\* arabic_glyphs.iter().map(RawGlyph::from).collect()
CollectRaw(glyphs) == [k \in 1..Len(glyphs) |-> RawGlyphFrom(glyphs[k])]

\* Feature tags of a sequence, position by position.
TagsOf(glyphs) == [k \in 1..Len(glyphs) |-> feature_tag(glyphs[k])]

(* --------------------------------------------------- joining-state pass *)

\* arabic_glyphs[idx] with the source's 0-based index.
At(glyphs, idx) == glyphs[idx + 1]

\* Mutant: the position is counted from 1.
FirstNonTransparent_one_based(glyphs) ==
    LET hits == {k \in 1..Len(glyphs) : ~is_transparent(glyphs[k])}
    IN  IF hits = {} THEN 0
        ELSE CHOOSE k \in hits : \A j \in hits : k <= j

\* arabic_glyphs.iter().position(|g| !g.is_transparent()).unwrap_or(0)
FirstNonTransparent(glyphs) ==
    LET hits == {k \in 1..Len(glyphs) : ~is_transparent(glyphs[k])}
    IN  IF hits = {} THEN 0
        ELSE (CHOOSE k \in hits : \A j \in hits : k <= j) - 1

\* Mutant: the two sides of the test are exchanged.
JoinTest_swapped(glyphs, p, idx) ==
    is_right_joining(At(glyphs, p)) /\ is_left_joining(At(glyphs, idx))

\* Mutant: the previous glyph is not asked whether it joins to the left.
JoinTest_right_only(glyphs, p, idx) ==
    is_right_joining(At(glyphs, idx))

\* The join test of the loop body.
JoinTest(glyphs, p, idx) ==
    is_left_joining(At(glyphs, p)) /\ is_right_joining(At(glyphs, idx))

\* Mutant: previous is set to INIT whatever its tag.
AdvancePrevious_always_init(g) == set_feature_tag(g, INIT)

\* Mutant: the FINA => MEDI arm is missing.
AdvancePrevious_no_medi(g) ==
    IF feature_tag(g) = ISOL THEN set_feature_tag(g, INIT) ELSE g

\* match arabic_glyphs[previous_i].feature_tag() { ISOL => INIT, FINA => MEDI, _ => {} }
AdvancePrevious(g) ==
    IF feature_tag(g) = ISOL THEN set_feature_tag(g, INIT)
    ELSE IF feature_tag(g) = FINA THEN set_feature_tag(g, MEDI)
    ELSE g

\* Mutant: previous_i is not moved to a glyph that joined.
JoinLoopBody_keeps_previous(glyphs, p, idx) ==
    IF is_transparent(At(glyphs, idx))
    THEN [glyphs |-> glyphs, previous_i |-> p]
    ELSE IF JoinTest(glyphs, p, idx)
         THEN LET g1 == [glyphs EXCEPT ![idx + 1] = set_feature_tag(@, FINA)]
                  g2 == [g1 EXCEPT ![p + 1] = AdvancePrevious(@)]
              IN  [glyphs |-> g2, previous_i |-> p]
         ELSE [glyphs |-> glyphs, previous_i |-> idx]

\* Mutant: a transparent glyph becomes previous_i instead of being skipped.
JoinLoopBody_transparent_breaks(glyphs, p, idx) ==
    IF is_transparent(At(glyphs, idx))
    THEN [glyphs |-> glyphs, previous_i |-> idx]
    ELSE IF JoinTest(glyphs, p, idx)
         THEN LET g1 == [glyphs EXCEPT ![idx + 1] = set_feature_tag(@, FINA)]
                  g2 == [g1 EXCEPT ![p + 1] = AdvancePrevious(@)]
              IN  [glyphs |-> g2, previous_i |-> idx]
         ELSE [glyphs |-> glyphs, previous_i |-> idx]

\* One iteration of `for i in (previous_i + 1)..arabic_glyphs.len()`: the
\* sequence and previous_i it leaves.
JoinLoopBody(glyphs, p, idx) ==
    IF is_transparent(At(glyphs, idx))
    THEN [glyphs |-> glyphs, previous_i |-> p]
    ELSE IF JoinTest(glyphs, p, idx)
         THEN LET g1 == [glyphs EXCEPT ![idx + 1] = set_feature_tag(@, FINA)]
                  g2 == [g1 EXCEPT ![p + 1] = AdvancePrevious(@)]
              IN  [glyphs |-> g2, previous_i |-> idx]
         ELSE [glyphs |-> glyphs, previous_i |-> idx]

RECURSIVE JoinFrom(_, _, _)
JoinFrom(glyphs, p, idx) ==
    IF idx >= Len(glyphs) THEN glyphs
    ELSE LET r == JoinLoopBody(glyphs, p, idx)
         IN  JoinFrom(r.glyphs, r.previous_i, idx + 1)

\* The whole pass (step 2 of gsub_apply_arabic) on a sequence.
ComputeJoiningStates(glyphs) ==
    JoinFrom(glyphs, FirstNonTransparent(glyphs), FirstNonTransparent(glyphs) + 1)

(* ------------------------------------------------------ feature pipeline *)

\* Mutant: FINA is marked global.
LANGUAGE_FEATURES_fina_global ==
    << <<"LOCL", TRUE>>,
       <<"ISOL", FALSE>>,
       <<"FINA", TRUE>>,
       <<"MEDI", FALSE>>,
       <<"INIT", FALSE>>,
       <<"RLIG", TRUE>>,
       <<"RCLT", TRUE>>,
       <<"CALT", TRUE>> >>

LANGUAGE_FEATURES ==
    << <<"LOCL", TRUE>>,
       <<"ISOL", FALSE>>,
       <<"FINA", FALSE>>,
       <<"MEDI", FALSE>>,
       <<"INIT", FALSE>>,
       <<"RLIG", TRUE>>,
       <<"RCLT", TRUE>>,
       <<"CALT", TRUE>> >>

\* Mutant: DLIG is applied with the typographic features.
TYPOGRAPHIC_FEATURES_dlig == <<"LIGA", "MSET", "DLIG">>

TYPOGRAPHIC_FEATURES == <<"LIGA", "MSET">>

\* Mutant: the joining states are computed before CCMP is applied.
Pipeline_join_first == <<"join", "ccmp", "lang", "typo", "writeback">>

\* The statements of gsub_apply_arabic after the conversion, in order.
Pipeline == <<"ccmp", "join", "lang", "typo", "writeback">>

\* The feature masks a stage passes to apply_lookups, in order.
StageFeatures(st) ==
    CASE st = "ccmp" -> <<"CCMP">>
      [] st = "lang" -> [k \in 1..Len(LANGUAGE_FEATURES) |-> LANGUAGE_FEATURES[k][1]]
      [] st = "typo" -> TYPOGRAPHIC_FEATURES
      [] OTHER       -> <<>>

\* The closure of the language-form loop: |g, feature_tag| is_global || ...
LanguagePred(is_global, g, tag) == is_global \/ feature_tag(g) = tag

\* The closure |_, _| true of the CCMP call and of the typographic loop.
GlobalPred(g, tag) == TRUE

\* The predicate apply_lookups hands to gsub_apply_lookup: |g| pred(g, feature_tag).
StagePred(st, k, g, tag) ==
    IF st = "lang" THEN LanguagePred(LANGUAGE_FEATURES[k][2], g, tag)
    ELSE GlobalPred(g, tag)

(* ---------------------------------------------------------- collaborators *)

\* gsub::get_lookups_cache_index and cached_lookups[index]: the ordered
\* (lookup index, feature tag) list of a feature; any length up to MaxLookups.
CacheEntries(feature_mask) ==
    {[k \in 1..n |-> <<k, MaskTag(feature_mask)>>] : n \in 0..MaxLookups}

\* Glyph indices substitution writes.
SubstGlyphs == {100}

RemoveAt(s, k) == [j \in 1..(Len(s) - 1) |-> IF j < k THEN s[j] ELSE s[j + 1]]

InsertAfter(s, k, x) ==
    [j \in 1..(Len(s) + 1) |-> IF j <= k THEN s[j] ELSE IF j = k + 1 THEN x ELSE s[j - 1]]

\* gsub::gsub_apply_lookup over 0..len under a predicate holding at the
\* positions sel: no match, a single substitution, a one-to-many substitution
\* (the added record is flagged multi_subst_dup and clones the extension
\* data), or a ligature (two records merged, extension data by merge).
SubstOutcomes(glyphs, sel) ==
    {glyphs}
    \cup {[glyphs EXCEPT ![k].glyph_index = gi] : k \in sel, gi \in SubstGlyphs}
    \cup {InsertAfter(glyphs, k,
                      [glyphs[k] EXCEPT !.glyph_index = gi, !.multi_subst_dup = TRUE])
            : k \in {j \in sel : Len(glyphs) < MaxLen}, gi \in SubstGlyphs}
    \cup {RemoveAt([glyphs EXCEPT
                      ![k].glyph_index = gi,
                      ![k].unicodes = glyphs[k].unicodes \o glyphs[k + 1].unicodes,
                      ![k].extra_data = merge(glyphs[k].extra_data,
                                              glyphs[k + 1].extra_data)],
                   k + 1)
            : k \in {j \in sel : j < Len(glyphs)}, gi \in SubstGlyphs}

(* ------------------------------------------------------------------ state *)

VARIABLES
    raw_glyphs,     \* the caller's Vec<RawGlyph<()>>
    arabic_glyphs,  \* the working Vec<ArabicGlyph>
    pc,             \* position in gsub_apply_arabic / apply_lookups
    stage,          \* index into Pipeline of the statement being run
    fi,             \* index of the feature within the stage's list
    lookups,        \* apply_lookups: the resolved cache entry
    li,             \* apply_lookups: index of the next pair of lookups
    calls,          \* history: the pairs gsub_apply_lookup was called with, in order
    previous_i,     \* joining-state pass: previous_i
    i,              \* joining-state pass: loop variable
    result,         \* "running", "ok" (Ok(())) or "err" (Err(_))
    edits,          \* lookup applications that changed the sequence
    input,          \* history: raw_glyphs as passed in
    resolved,       \* history: feature masks handed to the cache, in order
    last,           \* history: the latest gsub_apply_lookup call
    joinRuns,       \* history: times the joining-state pass was started
    joinInput,      \* history: the sequence the joining-state pass started on
    applic,         \* history: outcome of the script / language-system check
    failed,         \* history: a collaborator call has failed
    args,           \* arguments of a conversion or merge called on its own
    ret             \* its return value

vars ==
    <<raw_glyphs, arabic_glyphs, pc, stage, fi, lookups, li, calls, previous_i, i,
      result, edits, input, resolved, last, joinRuns, joinInput, applic, failed,
      args, ret>>

NoCall ==
    [kind |-> "none", stage |-> "", feature |-> "", lookup_index |-> 0,
     feature_tag |-> "", range |-> <<0, 0>>, sel |-> {}, tags |-> <<>>]

RECURSIVE SeqsUpTo(_, _)
SeqsUpTo(S, n) ==
    IF n = 0 THEN {<<>>}
    ELSE LET shorter == SeqsUpTo(S, n - 1)
         IN  shorter \cup {Append(s, x) : s \in {t \in shorter : Len(t) = n - 1}, x \in S}

\* Origins of the glyphs a shaping call is given: a dual-joining letter, a
\* transparent mark and a glyph with no character.
ShapeOrigins == {OriginChar(1576), OriginChar(1614), OriginDirect}

ShapeInputs == SeqsUpTo({MkRawGlyph(o, FALSE) : o \in ShapeOrigins}, MaxLen)

Init ==
    /\ raw_glyphs \in ShapeInputs
    /\ input = raw_glyphs
    /\ arabic_glyphs = <<>>
    /\ pc = "find_script"
    /\ stage = 0
    /\ fi = 0
    /\ lookups = <<>>
    /\ li = 0
    /\ calls = <<>>
    /\ previous_i = 0
    /\ i = 0
    /\ result = "running"
    /\ edits = 0
    /\ resolved = <<>>
    /\ last = NoCall
    /\ joinRuns = 0
    /\ joinInput = <<>>
    /\ applic = "unknown"
    /\ failed = FALSE
    /\ args = <<>>
    /\ ret = <<>>

(* ---------------------------------------------------------------- actions *)

StageName == IF stage \in 1..Len(Pipeline) THEN Pipeline[stage] ELSE ""

\* The feature mask of the apply_lookups call in progress.
CurrentFeature == StageFeatures(StageName)[fi]

\* Control reaches statement k of Pipeline.
EnterStage(k) ==
    /\ stage' = k
    /\ IF Pipeline[k] \in {"ccmp", "lang", "typo"}
       THEN pc' = "resolve" /\ fi' = 1
       ELSE /\ pc' = IF Pipeline[k] = "join" THEN "join_init" ELSE "writeback"
            /\ fi' = 0

\* The locals of gsub_apply_arabic and apply_lookups go out of scope.
DropLocals ==
    /\ arabic_glyphs' = <<>>
    /\ fi' = 0
    /\ lookups' = <<>>
    /\ li' = 0
    /\ calls' = <<>>
    /\ previous_i' = 0
    /\ i' = 0

\* Mutant: the failure is noted but the call carries on from where it was.
ErrorReturn_carries_on ==
    /\ failed' = TRUE
    /\ UNCHANGED <<raw_glyphs, arabic_glyphs, pc, stage, fi, lookups, li, calls,
                   previous_i, i, result, edits, input, args, ret, joinRuns,
                   joinInput>>

\* Mutant: the working sequence is written back before the error is returned.
ErrorReturn_writes_back ==
    /\ result' = "err"
    /\ pc' = "done"
    /\ raw_glyphs' = CollectRaw(arabic_glyphs)
    /\ DropLocals
    /\ failed' = TRUE
    /\ UNCHANGED <<stage, edits, input, args, ret, joinRuns, joinInput>>

\* `?` on a failed collaborator call: Err(_) is returned, raw_glyphs untouched.
ErrorReturn ==
    /\ result' = "err"
    /\ pc' = "done"
    /\ raw_glyphs' = raw_glyphs
    /\ DropLocals
    /\ failed' = TRUE
    /\ UNCHANGED <<stage, edits, input, args, ret, joinRuns, joinInput>>

\* Mutant: the check falls through to shaping instead of returning.
EarlyReturn_falls_through ==
    /\ pc' = "collect"
    /\ UNCHANGED <<raw_glyphs, arabic_glyphs, stage, fi, lookups, calls, li,
                   previous_i, i, result, edits, input, args, ret, resolved, last,
                   joinRuns, joinInput, failed>>

\* `return Ok(())` of the script / language-system check.
EarlyReturn ==
    /\ result' = "ok"
    /\ pc' = "done"
    /\ UNCHANGED <<raw_glyphs, arabic_glyphs, stage, fi, lookups, calls, li,
                   previous_i, i, edits, input, args, ret, resolved, last,
                   joinRuns, joinInput, failed>>

\* gsub_table.find_script(script_tag)? fails.
FindScriptFails ==
    /\ pc = "find_script"
    /\ ErrorReturn
    /\ UNCHANGED <<resolved, last, applic>>

\* find_script gives None.
ScriptAbsent ==
    /\ pc = "find_script"
    /\ applic' = "no_script"
    /\ EarlyReturn

\* find_script gives Some(s).
ScriptFound ==
    /\ pc = "find_script"
    /\ pc' = "find_langsys"
    /\ UNCHANGED <<raw_glyphs, arabic_glyphs, stage, fi, lookups, calls, li,
                   previous_i, i, result, edits, input, args, ret, resolved, last,
                   joinRuns, joinInput, applic, failed>>

\* s.find_langsys_or_default(lang_tag)? fails.
FindLangSysFails ==
    /\ pc = "find_langsys"
    /\ ErrorReturn
    /\ UNCHANGED <<resolved, last, applic>>

\* find_langsys_or_default gives None.
LangSysAbsent ==
    /\ pc = "find_langsys"
    /\ applic' = "no_langsys"
    /\ EarlyReturn

\* find_langsys_or_default gives Some(_).
LangSysFound ==
    /\ pc = "find_langsys"
    /\ pc' = "collect"
    /\ applic' = "ok"
    /\ UNCHANGED <<raw_glyphs, arabic_glyphs, stage, fi, lookups, calls, li,
                   previous_i, i, result, edits, input, args, ret, resolved, last,
                   joinRuns, joinInput, failed>>

\* let arabic_glyphs = &mut raw_glyphs.iter().map(ArabicGlyph::from).collect();
Collect ==
    /\ pc = "collect"
    /\ arabic_glyphs' = CollectArabic(raw_glyphs)
    /\ EnterStage(1)
    /\ UNCHANGED <<raw_glyphs, lookups, calls, li, previous_i, i, result, edits,
                   input, args, ret, resolved, last, joinRuns, joinInput, applic,
                   failed>>

\* apply_lookups: get_lookups_cache_index(..)? fails.
ResolveFails ==
    /\ pc = "resolve"
    /\ resolved' = Append(resolved, CurrentFeature)
    /\ ErrorReturn
    /\ UNCHANGED <<last, applic>>

\* apply_lookups: the cache entry of the feature is resolved.
Resolve ==
    /\ pc = "resolve"
    /\ resolved' = Append(resolved, CurrentFeature)
    /\ \E entry \in CacheEntries(CurrentFeature) : lookups' = entry
    /\ li' = 1
    /\ calls' = <<>>
    /\ pc' = "loop"
    /\ UNCHANGED <<raw_glyphs, arabic_glyphs, stage, fi, previous_i, i, result,
                   edits, input, args, ret, last, joinRuns, joinInput, applic,
                   failed>>

\* The positions of the sequence at which the predicate handed to
\* gsub_apply_lookup holds.
PredPositions(tag) ==
    {k \in 1..Len(arabic_glyphs) : StagePred(StageName, fi, arabic_glyphs[k], tag)}

\* Mutant: the range ends at the length the caller's sequence had.
LookupRange_input_len == <<0, Len(raw_glyphs)>>

\* The range of the call: 0, arabic_glyphs.len().
LookupRange == <<0, Len(arabic_glyphs)>>

CallRecord(kind) ==
    [kind         |-> kind,
     stage        |-> StageName,
     feature      |-> CurrentFeature,
     lookup_index |-> lookups[li][1],
     feature_tag  |-> lookups[li][2],
     range        |-> LookupRange,
     sel          |-> PredPositions(lookups[li][2]),
     tags         |-> TagsOf(arabic_glyphs)]

\* apply_lookups: gsub_apply_lookup(..)? fails on the next pair.
ApplyLookupFails ==
    /\ pc = "loop"
    /\ li <= Len(lookups)
    /\ last' = [CallRecord("apply_err") EXCEPT !.sel = {}, !.tags = <<>>]
    /\ ErrorReturn
    /\ UNCHANGED <<resolved, applic>>

\* apply_lookups: gsub_apply_lookup applies the next pair to 0..len.
ApplyLookup ==
    /\ pc = "loop"
    /\ li <= Len(lookups)
    /\ \E out \in SubstOutcomes(arabic_glyphs, PredPositions(lookups[li][2])) :
         /\ out # arabic_glyphs => edits < MaxEdits
         /\ arabic_glyphs' = out
         /\ edits' = IF out # arabic_glyphs THEN edits + 1 ELSE edits
         /\ last' = CallRecord("apply")
    /\ calls' = Append(calls, lookups[li])
    /\ li' = li + 1
    /\ UNCHANGED <<raw_glyphs, pc, stage, fi, lookups, previous_i, i, result,
                   input, args, ret, resolved, joinRuns, joinInput, applic,
                   failed>>

\* apply_lookups returns Ok(()): the caller's loop takes the next feature, or
\* the next statement of gsub_apply_arabic is reached.
LookupsDone ==
    /\ pc = "loop"
    /\ li > Len(lookups)
    /\ IF fi < Len(StageFeatures(StageName))
       THEN fi' = fi + 1 /\ pc' = "resolve" /\ stage' = stage
       ELSE EnterStage(stage + 1)
    /\ lookups' = <<>>
    /\ li' = 0
    /\ calls' = <<>>
    /\ last' = NoCall
    /\ UNCHANGED <<raw_glyphs, arabic_glyphs, previous_i, i, result, edits, input,
                   args, ret, resolved, joinRuns, joinInput, applic, failed>>

\* Mutant: the range starts at previous_i.
JoinInit_from_previous ==
    /\ pc = "join_init"
    /\ previous_i' = FirstNonTransparent(arabic_glyphs)
    /\ i' = FirstNonTransparent(arabic_glyphs)
    /\ joinRuns' = joinRuns + 1
    /\ joinInput' = arabic_glyphs
    /\ pc' = "join_loop"
    /\ UNCHANGED <<raw_glyphs, arabic_glyphs, stage, fi, lookups, calls, li,
                   result, edits, input, args, ret, resolved, last, applic,
                   failed>>

\* let mut previous_i = ...position(..).unwrap_or(0); the range starts at
\* previous_i + 1.
JoinInit ==
    /\ pc = "join_init"
    /\ previous_i' = FirstNonTransparent(arabic_glyphs)
    /\ i' = FirstNonTransparent(arabic_glyphs) + 1
    /\ joinRuns' = joinRuns + 1
    /\ joinInput' = arabic_glyphs
    /\ pc' = "join_loop"
    /\ UNCHANGED <<raw_glyphs, arabic_glyphs, stage, fi, lookups, calls, li,
                   result, edits, input, args, ret, resolved, last, applic,
                   failed>>

\* One iteration of the loop of the joining-state pass.
JoinStep ==
    /\ pc = "join_loop"
    /\ i < Len(arabic_glyphs)
    /\ arabic_glyphs' = JoinLoopBody(arabic_glyphs, previous_i, i).glyphs
    /\ previous_i' = JoinLoopBody(arabic_glyphs, previous_i, i).previous_i
    /\ i' = i + 1
    /\ UNCHANGED <<raw_glyphs, pc, stage, fi, lookups, calls, li, result, edits,
                   input, args, ret, resolved, last, joinRuns, joinInput, applic,
                   failed>>

\* The range is exhausted.
JoinExit ==
    /\ pc = "join_loop"
    /\ i >= Len(arabic_glyphs)
    /\ EnterStage(stage + 1)
    /\ UNCHANGED <<raw_glyphs, arabic_glyphs, lookups, calls, li, previous_i, i,
                   result, edits, input, args, ret, resolved, last, joinRuns,
                   joinInput, applic, failed>>

\* *raw_glyphs = arabic_glyphs.iter().map(RawGlyph::from).collect(); Ok(())
WriteBack ==
    /\ pc = "writeback"
    /\ raw_glyphs' = CollectRaw(arabic_glyphs)
    /\ result' = "ok"
    /\ pc' = "done"
    /\ DropLocals
    /\ UNCHANGED <<stage, edits, input, args, ret, resolved, last, joinRuns,
                   joinInput, applic, failed>>

Next ==
    \/ FindScriptFails
    \/ ScriptAbsent
    \/ ScriptFound
    \/ FindLangSysFails
    \/ LangSysAbsent
    \/ LangSysFound
    \/ Collect
    \/ ResolveFails
    \/ Resolve
    \/ ApplyLookupFails
    \/ ApplyLookup
    \/ LookupsDone
    \/ JoinInit
    \/ JoinStep
    \/ JoinExit
    \/ WriteBack

\* One shaping call against an arbitrary font.
Spec == Init /\ [][Next]_vars

(* ------------------------------------------- the joining-state pass alone *)

\* Index in Pipeline of the joining-state pass.
JoinStage == CHOOSE k \in 1..Len(Pipeline) : Pipeline[k] = "join"

\* Glyph sequences of every origin and duplicate flag.
JoinInputs == SeqsUpTo({MkRawGlyph(o, d) : o \in Origins, d \in BOOLEAN}, MaxJoinLen)

\* The call has passed the script / language-system check and CCMP, whose
\* lookups changed nothing, and is about to compute the joining states.
InitJoin ==
    /\ raw_glyphs \in JoinInputs
    /\ input = raw_glyphs
    /\ arabic_glyphs = CollectArabic(raw_glyphs)
    /\ pc = "join_init"
    /\ stage = JoinStage
    /\ fi = 0
    /\ lookups = <<>>
    /\ li = 0
    /\ calls = <<>>
    /\ previous_i = 0
    /\ i = 0
    /\ result = "running"
    /\ edits = 0
    /\ resolved = <<"CCMP">>
    /\ last = NoCall
    /\ joinRuns = 0
    /\ joinInput = <<>>
    /\ applic = "ok"
    /\ failed = FALSE
    /\ args = <<>>
    /\ ret = <<>>

NextJoin ==
    \/ JoinInit
    \/ JoinStep
    \/ JoinExit

\* The joining-state pass on every glyph sequence up to MaxJoinLen.
SpecJoin == InitJoin /\ [][NextJoin]_vars

(* ------------------------------- the conversions and merge on their own *)

\* Generic glyphs with every field varied.
RawGlyphs ==
    [unicodes           : {<<>>, <<1576>>, <<1604, 1575>>},
     glyph_index        : {0, 3},
     liga_component_pos : {0, 1},
     glyph_origin       : Origins,
     small_caps         : BOOLEAN,
     multi_subst_dup    : BOOLEAN,
     is_vert_alt        : BOOLEAN,
     fake_bold          : BOOLEAN,
     fake_italic        : BOOLEAN,
     variation          : {"None", "Some"}]

\* Values of the extension data.
ArabicDatas ==
    [joining_type              : {get_joining_type(c) : c \in Chars},
     canonical_combining_class : {canonical_combining_class(c) : c \in {65, 1614, 1611}},
     feature_tag               : PositionalTags]

\* A call of ArabicGlyph::from, of RawGlyph::from on its result, or of merge.
ConvCalls ==
    {<<"ArabicGlyph::from", g>> : g \in RawGlyphs}
    \cup {<<"RawGlyph::from", g>> : g \in RawGlyphs}
    \cup {<<"merge", d1, d2>> : d1 \in ArabicDatas, d2 \in ArabicDatas}

InitConv ==
    /\ args \in ConvCalls
    /\ ret = <<>>
    /\ pc = "call"
    /\ raw_glyphs = <<>>
    /\ input = <<>>
    /\ arabic_glyphs = <<>>
    /\ stage = 0
    /\ fi = 0
    /\ lookups = <<>>
    /\ li = 0
    /\ calls = <<>>
    /\ previous_i = 0
    /\ i = 0
    /\ result = "running"
    /\ edits = 0
    /\ resolved = <<>>
    /\ last = NoCall
    /\ joinRuns = 0
    /\ joinInput = <<>>
    /\ applic = "unknown"
    /\ failed = FALSE

\* The call returns: only ret and pc change.
Returns(value) ==
    /\ ret' = value
    /\ pc' = "returned"
    /\ UNCHANGED <<raw_glyphs, arabic_glyphs, stage, fi, lookups, li, calls,
                   previous_i, i, result, edits, input, resolved, last, joinRuns,
                   joinInput, applic, failed, args>>

\* ArabicGlyph::from(&raw_glyph).
CallArabicGlyphFrom ==
    /\ pc = "call"
    /\ args[1] = "ArabicGlyph::from"
    /\ Returns(ArabicGlyphFrom(args[2]))

\* RawGlyph::from(&ArabicGlyph::from(&raw_glyph)).
CallRawGlyphFrom ==
    /\ pc = "call"
    /\ args[1] = "RawGlyph::from"
    /\ Returns(RawGlyphFrom(ArabicGlyphFrom(args[2])))

\* ArabicData::merge(data1, data2).
CallMerge ==
    /\ pc = "call"
    /\ args[1] = "merge"
    /\ Returns(merge(args[2], args[3]))

NextConv ==
    \/ CallArabicGlyphFrom
    \/ CallRawGlyphFrom
    \/ CallMerge

\* One call of a conversion or of merge on every argument.
SpecConv == InitConv /\ [][NextConv]_vars

(* ----------------------------------------------------------------- claims *)

IsPrefix(s, t) == Len(s) <= Len(t) /\ \A k \in 1..Len(s) : s[k] = t[k]

\* The loop of the joining-state pass has run to its end.
JoinDone == pc = "join_loop" /\ i >= Len(arabic_glyphs)

\* C1: in a call that passes the script / language check and in which no
\* collaborator fails, the features resolved and applied are exactly CCMP,
\* LOCL, ISOL, FINA, MEDI, INIT, RLIG, RCLT, CALT, LIGA, MSET, each once and
\* in that order; at every moment the features requested so far are a prefix
\* of that list (so DLIG and CSWH are never requested), and every lookup is
\* applied under the feature resolved last.
C1_ExpectedFeatures ==
    <<"CCMP", "LOCL", "ISOL", "FINA", "MEDI", "INIT", "RLIG", "RCLT", "CALT",
      "LIGA", "MSET">>

C1_FeatureOrder ==
    /\ IsPrefix(resolved, C1_ExpectedFeatures)
    /\ last.kind \in {"apply", "apply_err"} =>
         /\ resolved # <<>>
         /\ last.feature = resolved[Len(resolved)]
    /\ (pc = "done" /\ applic = "ok" /\ ~failed) =>
         /\ result = "ok"
         /\ resolved = C1_ExpectedFeatures

C1_Witness ==
    /\ pc = "done"
    /\ applic = "ok"
    /\ ~failed
    /\ result = "ok"
    /\ resolved = C1_ExpectedFeatures
    /\ edits > 0

\* C2 (ordering part): the joining-state pass starts only when the CCMP call
\* of apply_lookups has returned and no other feature has been requested;
\* while CCMP lookups are applied it has not run; every lookup of a later
\* feature is applied after it has run to its end; and the tags it leaves are
\* those computed from the sequence as CCMP left it.
C2_Ordering ==
    /\ pc \in {"join_init", "join_loop"} =>
         /\ resolved = <<"CCMP">>
         /\ lookups = <<>>
         /\ last = NoCall
    /\ pc = "join_init" => joinRuns = 0
    /\ (last.kind \in {"apply", "apply_err"} /\ last.feature = "CCMP") => joinRuns = 0
    /\ (resolved # <<>> /\ resolved[Len(resolved)] # "CCMP") =>
         /\ joinRuns = 1
         /\ pc \notin {"join_init", "join_loop"}
    /\ JoinDone => arabic_glyphs = ComputeJoiningStates(joinInput)
    /\ (joinRuns = 1 /\ edits = 0) => TagsOf(joinInput) = [k \in 1..Len(input) |-> ISOL]

\* C2 as stated: the pass runs exactly once in every shaping call.
C2_ExactlyOncePerCall ==
    /\ C2_Ordering
    /\ pc = "done" => joinRuns = 1

\* C2 as amended: the pass runs at most once in a call, and exactly once in
\* every call that passes the script / language check and whose CCMP phase
\* does not fail.
C2_OnceAfterCcmp ==
    /\ C2_Ordering
    /\ joinRuns <= 1
    /\ (pc = "done" /\ applic = "ok" /\ ~failed) => joinRuns = 1
    /\ (pc = "done" /\ applic # "ok") => joinRuns = 0
    /\ (pc = "done" /\ failed /\ resolved \in {<<>>, <<"CCMP">>}) => joinRuns = 0
    /\ (pc = "done" /\ failed /\ Len(resolved) > 1) => joinRuns = 1

\* CCMP merged two records, and the tags are those of the new neighbours.
C2_Witness ==
    /\ JoinDone
    /\ edits = 1
    /\ Len(input) = 3
    /\ Len(arabic_glyphs) = 2
    /\ TagsOf(arabic_glyphs) = <<INIT, FINA>>
    /\ TagsOf(ComputeJoiningStates(CollectArabic(input))) = <<ISOL, ISOL, ISOL>>

\* C3: a failed collaborator call (script lookup, language-system lookup,
\* lookup-list resolution, application of a lookup) makes the call return an
\* error, and the caller's glyph sequence is then exactly the one passed in.
C3_ErrorLeavesInput ==
    /\ failed => (pc = "done" /\ result = "err")
    /\ result = "err" => (failed /\ raw_glyphs = input)

\* A lookup of a language-form feature fails after an earlier lookup changed
\* the working sequence.
C3_Witness ==
    /\ result = "err"
    /\ failed
    /\ last.kind = "apply_err"
    /\ last.stage = "lang"
    /\ edits > 0
    /\ raw_glyphs = input
    /\ Len(input) = 3

\* C4: when the script is absent, or has no matching and no default language
\* system, the call returns success at once: the glyph sequence is its input
\* and no lookup was resolved or applied.
C4_NoOpEarlyExit ==
    applic \in {"no_script", "no_langsys"} =>
        /\ pc = "done"
        /\ result = "ok"
        /\ raw_glyphs = input
        /\ resolved = <<>>
        /\ last = NoCall
        /\ joinRuns = 0
        /\ edits = 0

C4_Witness ==
    /\ applic = "no_langsys"
    /\ pc = "done"
    /\ result = "ok"
    /\ Len(input) = 3
    /\ raw_glyphs = input

\* C5: the predicate handed to the substitution engine holds, under ISOL,
\* FINA, MEDI and INIT, exactly at the glyphs whose feature_tag equals the
\* feature tag paired with the lookup in the cache entry, and under CCMP,
\* LOCL, RLIG, RCLT, CALT, LIGA and MSET at every glyph.
C5_PredicateByTag ==
    last.kind = "apply" =>
        /\ last.feature_tag = lookups[li - 1][2]
        /\ last.lookup_index = lookups[li - 1][1]
        /\ IF last.feature \in {"ISOL", "FINA", "MEDI", "INIT"}
           THEN last.sel = {k \in 1..Len(last.tags) : last.tags[k] = last.feature_tag}
           ELSE last.sel = 1..Len(last.tags)

\* A FINA lookup is applied to a sequence in which some glyphs, not all, are
\* tagged FINA.
C5_Witness ==
    /\ last.kind = "apply"
    /\ last.feature = "FINA"
    /\ last.sel # {}
    /\ last.sel # 1..Len(last.tags)
    /\ \E k \in 1..Len(last.tags) : last.tags[k] = MEDI

(* Joining types, transparency and joining sides as the claims state them. *)

JoiningTypes(glyphs) == [k \in 1..Len(glyphs) |-> glyphs[k].extra_data.joining_type]

NoDuplicates(glyphs) == \A k \in 1..Len(glyphs) : ~glyphs[k].multi_subst_dup

TransparentGlyph(g) ==
    g.extra_data.joining_type = "Transparent" \/ g.multi_subst_dup

LeftJoiner(g) ==
    g.extra_data.joining_type \in {"LeftJoining", "DualJoining", "JoinCausing"}

RightJoiner(g) ==
    g.extra_data.joining_type \in {"RightJoining", "DualJoining", "JoinCausing"}

\* The sequence without its transparent glyphs.
WithoutTransparent(glyphs) ==
    LET Keep(g) == ~TransparentGlyph(g) IN SelectSeq(glyphs, Keep)

\* 0-based indices of the non-transparent glyphs before index idx.
NonTransparentBefore(glyphs, idx) ==
    {j \in 0..(idx - 1) : ~TransparentGlyph(At(glyphs, j))}

Greatest(S) == CHOOSE x \in S : \A y \in S : y <= x

\* C6: on n >= 2 glyphs, all dual-joining and none a multi-substitution
\* duplicate, the pass leaves the first INIT, the last FINA and every glyph
\* between them MEDI.
C6_DualJoiningRun ==
    (/\ JoinDone
     /\ Len(arabic_glyphs) >= 2
     /\ \A k \in 1..Len(arabic_glyphs) :
            arabic_glyphs[k].extra_data.joining_type = "DualJoining"
     /\ NoDuplicates(arabic_glyphs))
    => TagsOf(arabic_glyphs) =
         [k \in 1..Len(arabic_glyphs) |->
            IF k = 1 THEN INIT ELSE IF k = Len(arabic_glyphs) THEN FINA ELSE MEDI]

C6_Witness ==
    /\ JoinDone
    /\ JoiningTypes(arabic_glyphs) = <<"DualJoining", "DualJoining", "DualJoining">>
    /\ NoDuplicates(arabic_glyphs)
    /\ TagsOf(arabic_glyphs) = <<INIT, MEDI, FINA>>

\* C7: the tags the pass gives the non-transparent glyphs of a sequence are
\* the tags it gives them when the transparent glyphs are removed first; and
\* [dual-joining, transparent, dual-joining] ends INIT, ISOL, FINA.
C7_TransparentDoesNotInterrupt ==
    JoinDone =>
        /\ TagsOf(WithoutTransparent(arabic_glyphs))
             = TagsOf(ComputeJoiningStates(WithoutTransparent(joinInput)))
        /\ (/\ JoiningTypes(arabic_glyphs) = <<"DualJoining", "Transparent", "DualJoining">>
            /\ NoDuplicates(arabic_glyphs))
           => TagsOf(arabic_glyphs) = <<INIT, ISOL, FINA>>

C7_Witness ==
    /\ JoinDone
    /\ JoiningTypes(arabic_glyphs) = <<"DualJoining", "Transparent", "DualJoining">>
    /\ NoDuplicates(arabic_glyphs)
    /\ TagsOf(arabic_glyphs) = <<INIT, ISOL, FINA>>

\* C8: is_transparent holds exactly of the glyphs whose joining type is
\* Transparent or that are flagged multi-substitution duplicates; during and
\* after the pass every such glyph is tagged ISOL, and whenever the join test
\* is evaluated neither previous_i nor i is one.
C8_TransparentUntouched ==
    /\ \A k \in 1..Len(arabic_glyphs) :
         /\ is_transparent(arabic_glyphs[k]) <=> TransparentGlyph(arabic_glyphs[k])
         /\ (pc \in {"join_init", "join_loop"} /\ TransparentGlyph(arabic_glyphs[k]))
            => feature_tag(arabic_glyphs[k]) = ISOL
    /\ (/\ pc = "join_loop"
        /\ i < Len(arabic_glyphs)
        /\ ~TransparentGlyph(At(arabic_glyphs, i)))
       => /\ previous_i < i
          /\ ~TransparentGlyph(At(arabic_glyphs, previous_i))

\* A dual-joining duplicate between two dual-joining letters is passed over.
C8_Witness ==
    /\ JoinDone
    /\ JoiningTypes(arabic_glyphs) = <<"DualJoining", "DualJoining", "DualJoining">>
    /\ arabic_glyphs[2].multi_subst_dup
    /\ ~arabic_glyphs[1].multi_subst_dup
    /\ ~arabic_glyphs[3].multi_subst_dup
    /\ TagsOf(arabic_glyphs) = <<INIT, ISOL, FINA>>

\* The pass is at a non-transparent glyph G = i whose nearest preceding
\* non-transparent glyph P does not join to the left, or which does not itself
\* join to the right.
C9_NoJoinAt ==
    /\ pc = "join_loop"
    /\ i < Len(arabic_glyphs)
    /\ ~TransparentGlyph(At(arabic_glyphs, i))
    /\ NonTransparentBefore(arabic_glyphs, i) # {}
    /\ \/ ~LeftJoiner(At(arabic_glyphs, Greatest(NonTransparentBefore(arabic_glyphs, i))))
       \/ ~RightJoiner(At(arabic_glyphs, i))

\* C9: at a non-transparent glyph G, previous_i is G's nearest preceding
\* non-transparent glyph P; if P is not left-joining or G is not
\* right-joining, the step changes no feature_tag and only moves previous_i
\* to G; so [right-joining, right-joining] ends ISOL, ISOL.
C9_NoJoinNoChange ==
    /\ [][/\ (/\ pc = "join_loop"
              /\ i < Len(arabic_glyphs)
              /\ ~TransparentGlyph(At(arabic_glyphs, i)))
             => /\ NonTransparentBefore(arabic_glyphs, i) # {}
                /\ previous_i = Greatest(NonTransparentBefore(arabic_glyphs, i))
          /\ C9_NoJoinAt
             => /\ arabic_glyphs' = arabic_glyphs
                /\ previous_i' = i
                /\ i' = i + 1]_vars
    /\ [](/\ JoinDone
          /\ JoiningTypes(arabic_glyphs) = <<"RightJoining", "RightJoining">>
          /\ NoDuplicates(arabic_glyphs)
          => TagsOf(arabic_glyphs) = <<ISOL, ISOL>>)

C9_Witness ==
    /\ JoinDone
    /\ JoiningTypes(arabic_glyphs) = <<"RightJoining", "RightJoining">>
    /\ NoDuplicates(arabic_glyphs)
    /\ previous_i = 1
    /\ TagsOf(arabic_glyphs) = <<ISOL, ISOL>>

\* The sequence is empty, has one glyph, or has only transparent glyphs.
C10_EdgeCase ==
    \/ Len(arabic_glyphs) <= 1
    \/ \A k \in 1..Len(arabic_glyphs) : TransparentGlyph(arabic_glyphs[k])

\* C10: on an empty sequence, a one-glyph sequence and a sequence of
\* transparent glyphs only, the pass changes no feature_tag: every glyph is
\* tagged ISOL afterwards.
C10_EdgeCasesUnchanged ==
    (pc = "join_loop" /\ C10_EdgeCase) =>
        /\ arabic_glyphs = joinInput
        /\ \A k \in 1..Len(arabic_glyphs) : feature_tag(arabic_glyphs[k]) = ISOL

\* The pass has ended on one dual-joining letter.
C10_Witness ==
    /\ JoinDone
    /\ JoiningTypes(arabic_glyphs) = <<"DualJoining">>
    /\ NoDuplicates(arabic_glyphs)
    /\ TagsOf(arabic_glyphs) = <<ISOL>>

\* The step is one iteration of the loop of the joining-state pass.
C11_LoopStep == pc = "join_loop" /\ i < Len(arabic_glyphs)

\* C11: every feature_tag is ISOL when the script glyphs are created; an
\* iteration of the pass leaves a tag as it is, or takes it ISOL -> INIT or
\* FINA -> MEDI, or sets it to FINA, and never sets a tag back to ISOL; every
\* other step of the call, in particular every step after the pass, writes no
\* tag (the extension data of the working sequence is data it already held).
C11_TagWrites ==
    [][/\ pc = "collect"
          => \A k \in 1..Len(arabic_glyphs') : feature_tag(arabic_glyphs'[k]) = ISOL
       /\ C11_LoopStep
          => /\ Len(arabic_glyphs') = Len(arabic_glyphs)
             /\ \A k \in 1..Len(arabic_glyphs) :
                  /\ \/ feature_tag(arabic_glyphs'[k]) = feature_tag(arabic_glyphs[k])
                     \/ /\ feature_tag(arabic_glyphs[k]) = ISOL
                        /\ feature_tag(arabic_glyphs'[k]) = INIT
                     \/ /\ feature_tag(arabic_glyphs[k]) = FINA
                        /\ feature_tag(arabic_glyphs'[k]) = MEDI
                     \/ feature_tag(arabic_glyphs'[k]) = FINA
                  /\ feature_tag(arabic_glyphs[k]) # ISOL
                     => feature_tag(arabic_glyphs'[k]) # ISOL
       /\ (pc # "collect" /\ ~C11_LoopStep)
          => \A k \in 1..Len(arabic_glyphs') :
               \E j \in 1..Len(arabic_glyphs) :
                 arabic_glyphs'[k].extra_data = arabic_glyphs[j].extra_data]_vars

\* The pass has written INIT, FINA and MEDI, and a later one-to-many
\* substitution has cloned one of the records.
C11_Witness ==
    /\ joinRuns = 1
    /\ pc = "loop"
    /\ edits = 1
    /\ TagsOf(joinInput) = <<ISOL, ISOL, ISOL>>
    /\ \E k \in 1..Len(arabic_glyphs) : feature_tag(arabic_glyphs[k]) = MEDI
    /\ Len(arabic_glyphs) = 2

\* C12: the step on which a collaborator call fails ends the call with Err(_)
\* at once: it starts no joining-state pass and leaves raw_glyphs alone, and
\* after it the call takes no further step, so nothing more is resolved or
\* applied, the pass does not run if it had not, and the call is not retried.
C12_FailureAborts ==
    /\ [](failed => pc = "done" /\ result = "err")
    /\ [][/\ ~failed
          /\ failed' => /\ result' = "err"
                        /\ pc' = "done"
                        /\ joinRuns' = joinRuns
                        /\ Len(resolved') <= Len(resolved) + 1
                        /\ last'.kind # "apply"]_vars

\* A lookup of CCMP failed in gsub_apply_lookup: the call is over with Err(_)
\* and the joining-state pass has not run.
C12_Witness ==
    /\ failed
    /\ last.kind = "apply_err"
    /\ last.feature = "CCMP"
    /\ last.lookup_index = 2
    /\ joinRuns = 0
    /\ result = "err"

\* C13: within one feature the pairs gsub_apply_lookup has been called with
\* are the pairs of the resolved cache entry, each once and in the entry's
\* order; every call is made with the range 0 to the length the working
\* sequence has at that moment, on the sequence the calls before it left.
C13_OncePerPairInOrder ==
    /\ [](pc = "loop" => /\ li \in 1..(Len(lookups) + 1)
                         /\ calls = SubSeq(lookups, 1, li - 1))
    /\ [][(pc = "loop" /\ li <= Len(lookups))
          => /\ li' \in {0, li + 1}
             /\ last'.lookup_index = lookups[li][1]
             /\ last'.feature_tag = lookups[li][2]
             /\ last'.range = <<0, Len(arabic_glyphs)>>
             /\ last'.kind = "apply"
                => /\ calls' = Append(calls, lookups[li])
                   /\ last'.tags = TagsOf(arabic_glyphs)]_vars
    /\ [][(pc = "loop" /\ li > Len(lookups)) => calls = lookups]_vars

\* Both pairs of a two-pair entry have been applied; the first shortened the
\* sequence, and the second was called on the two glyphs that were left.
C13_Witness ==
    /\ pc = "loop"
    /\ Len(lookups) = 2
    /\ calls = lookups
    /\ last.kind = "apply"
    /\ last.lookup_index = 2
    /\ Len(input) = 3
    /\ last.range = <<0, 2>>

\* C14: RawGlyph::from(&ArabicGlyph::from(&g)) has the unicodes, glyph index,
\* ligature component position, origin, small_caps, multi_subst_dup,
\* is_vert_alt, fake_bold, fake_italic and variation of g, for every g.
C14_RoundTrip ==
    (pc = "returned" /\ args[1] = "RawGlyph::from") =>
        /\ ret.unicodes = args[2].unicodes
        /\ ret.glyph_index = args[2].glyph_index
        /\ ret.glyph_origin = args[2].glyph_origin
        /\ ret.liga_component_pos = args[2].liga_component_pos
        /\ ret.small_caps = args[2].small_caps
        /\ ret.multi_subst_dup = args[2].multi_subst_dup
        /\ ret.is_vert_alt = args[2].is_vert_alt
        /\ ret.fake_bold = args[2].fake_bold
        /\ ret.fake_italic = args[2].fake_italic
        /\ ret.variation = args[2].variation
        /\ ret = args[2]

\* The round trip of a glyph whose flags differ from one another.
C14_Witness ==
    /\ pc = "returned"
    /\ args[1] = "RawGlyph::from"
    /\ args[2].fake_bold
    /\ ~args[2].fake_italic
    /\ args[2].small_caps
    /\ ~args[2].is_vert_alt
    /\ args[2].multi_subst_dup
    /\ args[2].variation = "Some"
    /\ args[2].glyph_origin = OriginChar(1575)
    /\ Len(args[2].unicodes) = 2
    /\ args[2].liga_component_pos = 1

\* C15: the glyph ArabicGlyph::from returns has feature_tag ISOL, for every
\* origin, joining type and flag of its argument.
C15_FreshIsIsol ==
    (pc = "returned" /\ args[1] = "ArabicGlyph::from") => feature_tag(ret) = ISOL

\* A right-joining character flagged as a duplicate has been converted.
C15_Witness ==
    /\ pc = "returned"
    /\ args[1] = "ArabicGlyph::from"
    /\ ret.extra_data.joining_type = "RightJoining"
    /\ ret.multi_subst_dup
    /\ ret.fake_italic

\* C17: merge(data1, data2) is data1 (joining type, combining class and
\* feature tag), whatever data2 is.
C17_MergeKeepsFirst ==
    (pc = "returned" /\ args[1] = "merge") =>
        /\ ret.joining_type = args[2].joining_type
        /\ ret.canonical_combining_class = args[2].canonical_combining_class
        /\ ret.feature_tag = args[2].feature_tag
        /\ ret = args[2]

\* Two records that differ in every field have been merged.
C17_Witness ==
    /\ pc = "returned"
    /\ args[1] = "merge"
    /\ args[2].joining_type # args[3].joining_type
    /\ args[2].canonical_combining_class # args[3].canonical_combining_class
    /\ args[2].feature_tag = INIT
    /\ args[3].feature_tag = FINA

\* The glyph's origin is GlyphOrigin::Direct.
C16_Direct(g) == g.glyph_origin = OriginDirect

\* C16: a glyph of origin Direct has joining type NonJoining and combining
\* class 0, joins on neither side and is tagged ISOL before, during and after
\* the joining-state pass; an iteration of the pass whose current or previous
\* glyph is of origin Direct changes no glyph.
C16_DirectNeverJoins ==
    /\ [](\A k \in 1..Len(arabic_glyphs) :
            C16_Direct(arabic_glyphs[k])
            => /\ arabic_glyphs[k].extra_data.joining_type = "NonJoining"
               /\ arabic_glyphs[k].extra_data.canonical_combining_class = 0
               /\ ~is_left_joining(arabic_glyphs[k])
               /\ ~is_right_joining(arabic_glyphs[k])
               /\ feature_tag(arabic_glyphs[k]) = ISOL)
    /\ [][(/\ C11_LoopStep
           /\ \/ C16_Direct(At(arabic_glyphs, i))
              \/ C16_Direct(At(arabic_glyphs, previous_i)))
          => arabic_glyphs' = arabic_glyphs]_vars

\* The pass has ended on BEH, a glyph of origin Direct, BEH: the two letters
\* would join each other and neither has joined across the Direct glyph.
C16_Witness ==
    /\ JoinDone
    /\ Len(arabic_glyphs) = 3
    /\ arabic_glyphs[1].glyph_origin = OriginChar(1576)
    /\ C16_Direct(arabic_glyphs[2])
    /\ ~arabic_glyphs[2].multi_subst_dup
    /\ arabic_glyphs[3].glyph_origin = OriginChar(1576)
    /\ NoDuplicates(arabic_glyphs)
    /\ TagsOf(arabic_glyphs) = <<ISOL, ISOL, ISOL>>

\* 0-based indices of the non-transparent glyphs after index idx.
NonTransparentAfter(glyphs, idx) ==
    {j \in (idx + 1)..(Len(glyphs) - 1) : ~TransparentGlyph(At(glyphs, j))}

Least(S) == CHOOSE x \in S : \A y \in S : x <= y

\* The glyph at idx joins its nearest non-transparent neighbour before it.
C18_JoinsPrev(glyphs, idx) ==
    /\ NonTransparentBefore(glyphs, idx) # {}
    /\ LeftJoiner(At(glyphs, Greatest(NonTransparentBefore(glyphs, idx))))
    /\ RightJoiner(At(glyphs, idx))

\* The glyph at idx joins its nearest non-transparent neighbour after it.
C18_JoinsNext(glyphs, idx) ==
    /\ NonTransparentAfter(glyphs, idx) # {}
    /\ LeftJoiner(At(glyphs, idx))
    /\ RightJoiner(At(glyphs, Least(NonTransparentAfter(glyphs, idx))))

\* C18: when the pass has ended, every non-transparent glyph is tagged MEDI
\* if it joins both its nearest non-transparent neighbours, FINA if only the
\* one before, INIT if only the one after, ISOL if neither, for every sequence
\* of joining types and duplicate flags.
C18_TagByNeighbours ==
    JoinDone =>
        \A idx \in 0..(Len(arabic_glyphs) - 1) :
            ~TransparentGlyph(At(arabic_glyphs, idx)) =>
                feature_tag(At(arabic_glyphs, idx)) =
                    IF C18_JoinsPrev(arabic_glyphs, idx)
                    THEN IF C18_JoinsNext(arabic_glyphs, idx) THEN MEDI ELSE FINA
                    ELSE IF C18_JoinsNext(arabic_glyphs, idx) THEN INIT ELSE ISOL

\* The pass has ended on left-joining, duplicate, right-joining: the two
\* ends join across the duplicate.
C18_Witness ==
    /\ JoinDone
    /\ JoiningTypes(arabic_glyphs) = <<"LeftJoining", "DualJoining", "RightJoining">>
    /\ arabic_glyphs[2].multi_subst_dup
    /\ ~arabic_glyphs[1].multi_subst_dup
    /\ ~arabic_glyphs[3].multi_subst_dup
    /\ TagsOf(arabic_glyphs) = <<INIT, ISOL, FINA>>

\* The iteration about to run takes the join branch: the current glyph is not
\* transparent, previous joins to the left and the current glyph to the right.
C19_JoinBranch ==
    /\ C11_LoopStep
    /\ ~TransparentGlyph(At(arabic_glyphs, i))
    /\ LeftJoiner(At(arabic_glyphs, previous_i))
    /\ RightJoiner(At(arabic_glyphs, i))

\* C19: when the join branch is taken the current glyph is tagged ISOL and is
\* set to FINA, and previous is tagged ISOL or FINA and is advanced to INIT or
\* MEDI, so the `_ => {}` arm of the match is not reached; a glyph tagged INIT
\* or MEDI is not written again.
C19_PreviousAlwaysAdvanced ==
    /\ [][C19_JoinBranch
          => /\ feature_tag(At(arabic_glyphs, i)) = ISOL
             /\ feature_tag(At(arabic_glyphs', i)) = FINA
             /\ \/ /\ feature_tag(At(arabic_glyphs, previous_i)) = ISOL
                   /\ feature_tag(At(arabic_glyphs', previous_i)) = INIT
                \/ /\ feature_tag(At(arabic_glyphs, previous_i)) = FINA
                   /\ feature_tag(At(arabic_glyphs', previous_i)) = MEDI]_vars
    /\ [][\A k \in 1..Len(arabic_glyphs) :
            feature_tag(arabic_glyphs[k]) \in {INIT, MEDI}
            => /\ k <= Len(arabic_glyphs')
               /\ arabic_glyphs'[k] = arabic_glyphs[k]]_vars

\* The join branch has been taken twice on join-causing, dual-joining,
\* right-joining: previous went ISOL -> INIT the first time and
\* FINA -> MEDI the second.
C19_Witness ==
    /\ pc = "join_loop"
    /\ i = 3
    /\ previous_i = 2
    /\ JoiningTypes(arabic_glyphs) = <<"JoinCausing", "DualJoining", "RightJoining">>
    /\ NoDuplicates(arabic_glyphs)
    /\ TagsOf(arabic_glyphs) = <<INIT, MEDI, FINA>>

\* C20: in the loop of the pass i is at least 1 and previous_i is at least 0
\* and less than i; the glyph read at i is within the sequence; when the
\* current glyph is not transparent, so that the join test is evaluated,
\* previous_i is within the sequence, before i, and on a non-transparent
\* glyph; an iteration writes at previous_i and i only and keeps the length.
\* On the empty sequence, and on one with transparent glyphs only (previous_i
\* is 0), no join test is evaluated and nothing is written.
C20_IndicesInRange ==
    /\ [](pc = "join_loop"
          => /\ i >= 1
             /\ previous_i >= 0
             /\ previous_i < i
             /\ i <= Len(arabic_glyphs) \/ (Len(arabic_glyphs) = 0 /\ i = 1)
             /\ (i < Len(arabic_glyphs) /\ ~TransparentGlyph(At(arabic_glyphs, i)))
                => /\ previous_i < Len(arabic_glyphs)
                   /\ ~TransparentGlyph(At(arabic_glyphs, previous_i))
             /\ (\A k \in 1..Len(arabic_glyphs) : TransparentGlyph(arabic_glyphs[k]))
                => /\ previous_i = 0
                   /\ arabic_glyphs = joinInput)
    /\ [][C11_LoopStep
          => /\ Len(arabic_glyphs') = Len(arabic_glyphs)
             /\ \A k \in 0..(Len(arabic_glyphs) - 1) :
                    At(arabic_glyphs', k) # At(arabic_glyphs, k)
                    => k \in {previous_i, i}]_vars

\* The pass has ended on transparent, dual-joining, dual-joining: previous_i
\* started at index 1 and the join test was evaluated once, at index 2.
C20_Witness ==
    /\ JoinDone
    /\ JoiningTypes(arabic_glyphs) = <<"Transparent", "DualJoining", "DualJoining">>
    /\ NoDuplicates(arabic_glyphs)
    /\ previous_i = 2
    /\ i = 3
    /\ TagsOf(arabic_glyphs) = <<ISOL, INIT, FINA>>

====
